---- MODULE Spec2Model ----
(***************************************************************************)
(* In-memory brotli streams (src/src/stream.rs): the Compress and          *)
(* Decompress sessions, their drain operation and the one-shot buffer      *)
(* codec.  The sessions wrap a codec engine (brotli_sys) whose code is not *)
(* part of stream.rs; the engine is modelled here as a small block codec   *)
(* that honours the engine's streaming contract: it consumes a prefix of   *)
(* the input, writes a prefix of its pending output into the caller's      *)
(* region, keeps the rest in an internal buffer, and reports a result code.*)
(***************************************************************************)
EXTENDS Integers, Sequences, FiniteSets, TLC

(* ------------------------------ bounds -------------------------------- *)

\* Largest plain byte value: plain bytes are 0..MaxByte.
MaxByte == 1
\* Longest input view a caller hands to one step call.
MaxIn == 2
\* Longest output view a caller hands to one step call.
MaxOut == 2
\* Largest size limit a caller passes to take_output.
MaxLimit == 2
\* The engine's input block size (bytes buffered before a block is emitted).
BlockSize == 2
\* The decoder's ring buffer size (decoded bytes held before output is required).
RingSize == 2
\* Sessions a caller keeps alive at the same time.
MaxLive == 1
\* Addresses at which the engine library can create an instance.
MaxAddr == 2
\* Longest plain input and longest encoded input of a one-shot call.
MaxData == 3
MaxStream == 4
\* Longest output region of a one-shot call.
MaxRegion == 6

(* ---------------------- the engine's wire format ---------------------- *)

\* A data block of n bytes starts with the byte HdrBase + n.
HdrBase == 10
\* The byte that ends the stream (the empty last block).
LastMark == 20
\* A metadata block of n bytes starts with the byte MetaBase + n.
MetaBase == 30
\* Largest metadata block the encoder accepts (16 MiB in the engine).
MetaCap == 2
\* The encoder's small internal buffer for metadata (16 bytes in the engine).
TinyBuf == 1
\* remaining_metadata_bytes_ when no metadata block is open (BROTLI_UINT32_MAX).
NoMeta == -1

Byte == 0..MaxByte

Min(a, b) == IF a < b THEN a ELSE b

\* s[..k] and s[k..] of a slice.
Take(s, k) == SubSeq(s, 1, k)
Drop(s, k) == SubSeq(s, k + 1, Len(s))

\* All sequences over S of length at most n.
SeqUpTo(S, n) == UNION {[1..k -> S] : k \in 0..n}

(* ------------------------------ encoder ------------------------------- *)

\* brotli_sys::BROTLI_MODE_GENERIC, _TEXT, _FONT: the values of CompressMode.
BROTLI_MODE_GENERIC == 0
BROTLI_MODE_TEXT == 1
BROTLI_MODE_FONT == 2
CompressMode == {BROTLI_MODE_GENERIC, BROTLI_MODE_TEXT, BROTLI_MODE_FONT}

\* brotli_sys::BROTLI_DEFAULT_MODE, _QUALITY, _WINDOW.
BROTLI_DEFAULT_MODE == BROTLI_MODE_GENERIC
BROTLI_DEFAULT_QUALITY == 11
BROTLI_DEFAULT_WINDOW == 22

\* BrotliEncoderInitParams: the parameters of a new encoder; lgblock 0 has
\* the engine derive the block bits.
EncDefaults ==
    [mode |-> BROTLI_DEFAULT_MODE, quality |-> BROTLI_DEFAULT_QUALITY,
     lgwin |-> BROTLI_DEFAULT_WINDOW, lgblock |-> 0]

\* BrotliEncoderCreateInstance: an empty ring buffer, no pending output, the
\* default parameters, not yet initialized (no byte processed).
EncInit ==
    [ring |-> <<>>, out |-> <<>>, ss |-> "PROCESSING", meta |-> NoMeta,
     params |-> EncDefaults, init |-> FALSE]

\* BrotliEncoderSetParameter(state, param, value): stores the value until
\* the encoder is initialized, and is ignored after that (its BROTLI_BOOL
\* result is not looked at).
BrotliEncoderSetParameter(e, param, value) ==
    IF e.init THEN e
    ELSE CASE param = "BROTLI_PARAM_MODE" -> [e EXCEPT !.params.mode = value]
           [] param = "BROTLI_PARAM_QUALITY" ->
                  [e EXCEPT !.params.quality = value]
           [] param = "BROTLI_PARAM_LGWIN" -> [e EXCEPT !.params.lgwin = value]
           [] param = "BROTLI_PARAM_LGBLOCK" ->
                  [e EXCEPT !.params.lgblock = value]

\* ComputeLgBlock: the block bits in force: those set, brought into 16..24,
\* or with lgblock 0 those derived from the quality and the window.
ComputeLgBlock(params) ==
    IF params.lgblock # 0
    THEN IF params.lgblock < 16 THEN 16 ELSE Min(24, params.lgblock)
    ELSE IF params.quality >= 9 /\ params.lgwin > 16
    THEN Min(18, params.lgwin)
    ELSE 16

\* The input block size of an encoder: the full BlockSize from 18 block bits
\* on, one byte less below.
InputBlockSize(e) ==
    IF ComputeLgBlock(e.params) >= 18 THEN BlockSize ELSE BlockSize - 1

\* EncodeData: the buffered input becomes one block of pending output.
EncodeData(ring, is_last) ==
    (IF ring = <<>> THEN <<>> ELSE <<HdrBase + Len(ring)>> \o ring)
        \o (IF is_last THEN <<LastMark>> ELSE <<>>)

\* CheckFlushComplete: a requested flush is over once the output is drained.
CheckFlushComplete(e) ==
    IF e.ss = "FLUSH_REQUESTED" /\ e.out = <<>>
    THEN [e EXCEPT !.ss = "PROCESSING"] ELSE e

\* InjectFlushOrPushOutput: move pending output into the caller's region.
PushOutput(x) ==
    LET k == Min(Len(x.e.out), x.aout)
    IN  [x EXCEPT !.wr = @ \o Take(x.e.out, k), !.e.out = Drop(@, k),
                  !.aout = @ - k]

\* One iteration of the main loop of BrotliEncoderCompressStream for Process,
\* Flush, Finish; EncLoop runs the iterations after it.
\* x = [e: engine, in: unread input, aout: available_out, wr: bytes written].
RECURSIVE EncLoop(_, _)
EncIteration(x, op) ==
    LET rem == InputBlockSize(x.e) - Len(x.e.ring)
    IN  IF rem # 0 /\ x.in # <<>> THEN
            LET k == Min(rem, Len(x.in))
            IN  EncLoop([x EXCEPT !.e.ring = @ \o Take(x.in, k),
                                  !.in = Drop(@, k)], op)
        ELSE IF x.e.out # <<>> /\ x.aout # 0 THEN
            EncLoop(PushOutput(x), op)
        ELSE IF /\ x.e.out = <<>>
                /\ x.e.ss = "PROCESSING"
                /\ (rem = 0 \/ op # "Process") THEN
            LET is_last == x.in = <<>> /\ op = "Finish"
                force_flush == x.in = <<>> /\ op = "Flush"
            IN  EncLoop([x EXCEPT
                    !.e.out = EncodeData(x.e.ring, is_last),
                    !.e.ring = <<>>,
                    !.e.ss = IF is_last THEN "FINISHED"
                             ELSE IF force_flush THEN "FLUSH_REQUESTED"
                             ELSE @], op)
        ELSE x

\* The main loop: each iteration works on the value of the loop state.
EncLoop(x0, op) == CHOOSE r \in {EncIteration(x, op) : x \in {x0}} : TRUE

\* ProcessMetadata: one iteration of the loop of the EmitMetadata operation.
RECURSIVE MetaLoop(_)
MetaIteration(x) ==
    IF x.e.out # <<>> /\ x.aout # 0 THEN MetaLoop(PushOutput(x))
    ELSE IF x.e.out # <<>> THEN x
    ELSE IF x.e.ring # <<>> THEN
        MetaLoop([x EXCEPT !.e.out = EncodeData(x.e.ring, FALSE),
                           !.e.ring = <<>>])
    ELSE IF x.e.ss = "METADATA_HEAD" THEN
        MetaLoop([x EXCEPT !.e.out = <<MetaBase + x.e.meta>>,
                           !.e.ss = "METADATA_BODY"])
    ELSE IF x.e.meta = 0 THEN
        [x EXCEPT !.e.meta = NoMeta, !.e.ss = "PROCESSING"]
    ELSE IF x.aout # 0 THEN
        LET k == Min(x.e.meta, x.aout)
        IN  MetaLoop([x EXCEPT !.wr = @ \o Take(x.in, k), !.in = Drop(@, k),
                               !.aout = @ - k, !.e.meta = @ - k])
    ELSE
        LET k == Min(x.e.meta, TinyBuf)
        IN  MetaLoop([x EXCEPT !.e.out = Take(x.in, k), !.in = Drop(@, k),
                               !.e.meta = @ - k])

\* ProcessMetadata: the loop of the EmitMetadata operation.
MetaLoop(x0) == CHOOSE r \in {MetaIteration(x) : x \in {x0}} : TRUE

\* What one engine call hands back through its out-parameters.
EngineResult(r, x, in) ==
    [r |-> r, e |-> x.e, available_in |-> Len(x.in),
     next_in |-> Len(in) - Len(x.in), available_out |-> x.aout,
     written |-> x.wr]

\* BrotliEncoderCompressStream(state, op, &available_in, &next_in,
\*                             &available_out, &next_out, &total_out).
BrotliEncoderCompressStream(state, op, in, aout) ==
    LET e == [state EXCEPT !.init = TRUE]
        x0 == [e |-> e, in |-> in, aout |-> aout, wr |-> <<>>]
        fail == EngineResult(0, x0, in)
    IN  IF e.meta # NoMeta /\ (Len(in) # e.meta \/ op # "EmitMetadata")
        THEN fail
        ELSE IF op = "EmitMetadata" THEN
            IF Len(in) > MetaCap THEN fail
            ELSE IF e.ss \notin {"PROCESSING", "METADATA_HEAD", "METADATA_BODY"}
            THEN fail
            ELSE LET x1 == IF e.ss = "PROCESSING"
                           THEN [x0 EXCEPT !.e.meta = Len(in),
                                           !.e.ss = "METADATA_HEAD"]
                           ELSE x0
                 IN  EngineResult(1, MetaLoop(x1), in)
        ELSE IF e.ss \in {"METADATA_HEAD", "METADATA_BODY"} THEN fail
        ELSE IF e.ss # "PROCESSING" /\ in # <<>> THEN fail
        ELSE LET x1 == EncLoop(x0, op)
             IN  EngineResult(1, [x1 EXCEPT !.e = CheckFlushComplete(@)], in)

\* BrotliEncoderHasMoreOutput and BrotliEncoderIsFinished (BROTLI_BOOL).
BrotliEncoderHasMoreOutput(e) == IF e.out # <<>> THEN 1 ELSE 0
BrotliEncoderIsFinished(e) ==
    IF e.ss = "FINISHED" /\ BrotliEncoderHasMoreOutput(e) = 0 THEN 1 ELSE 0

\* BrotliEncoderTakeOutput(state, &size): size 0 on entry means no limit;
\* on return size is the number of bytes handed out (0: nothing, null).
BrotliEncoderTakeOutput(e, size) ==
    LET k == IF size # 0 THEN Min(size, Len(e.out)) ELSE Len(e.out)
    IN  [e |-> CheckFlushComplete([e EXCEPT !.out = Drop(@, k)]),
         size |-> k, bytes |-> Take(e.out, k)]

(* ------------------------------ decoder ------------------------------- *)

\* BrotliDecoderCreateInstance: at a block header, nothing decoded.
DecInit == [phase |-> "HEADER", rem |-> 0, ring |-> <<>>, err |-> FALSE]

\* WriteRingBuffer: move decoded bytes into the caller's region.
WriteRingBuffer(x) ==
    LET k == Min(Len(x.d.ring), x.aout)
    IN  [x EXCEPT !.wr = @ \o Take(x.d.ring, k), !.d.ring = Drop(@, k),
                  !.aout = @ - k]

\* The block header byte h read in phase HEADER.
ReadHeader(d, h) ==
    IF h \in (HdrBase + 1)..(HdrBase + BlockSize)
    THEN [d EXCEPT !.phase = "DATA", !.rem = h - HdrBase]
    ELSE IF h = LastMark THEN [d EXCEPT !.phase = "DONE"]
    ELSE IF h = MetaBase THEN d
    ELSE IF h \in (MetaBase + 1)..(MetaBase + MetaCap)
    THEN [d EXCEPT !.phase = "META", !.rem = h - MetaBase]
    ELSE [d EXCEPT !.err = TRUE]

\* One byte less to read in the current block.
BlockByteRead(d) ==
    [d EXCEPT !.rem = @ - 1, !.phase = IF d.rem = 1 THEN "HEADER" ELSE @]

\* One step of the state machine of BrotliDecoderDecompressStream.
\* x = [d: engine, in: unread input, aout: available_out, wr: bytes written,
\*      rc: the result code once the loop has ended].
RECURSIVE DecLoop(_)
DecIteration(x) ==
    IF x.d.ring # <<>> /\ x.aout # 0 THEN DecLoop(WriteRingBuffer(x))
    ELSE IF x.d.phase = "DONE" THEN
        [x EXCEPT !.rc = IF x.d.ring # <<>> THEN "NEEDS_MORE_OUTPUT"
                         ELSE "SUCCESS"]
    ELSE IF x.d.phase = "DATA" /\ Len(x.d.ring) = RingSize THEN
        [x EXCEPT !.rc = "NEEDS_MORE_OUTPUT"]
    ELSE IF x.in = <<>> THEN
        [x EXCEPT !.rc = IF x.d.ring # <<>> THEN "NEEDS_MORE_OUTPUT"
                         ELSE "NEEDS_MORE_INPUT"]
    ELSE IF x.d.phase = "HEADER" THEN
        LET d1 == ReadHeader(x.d, Head(x.in))
        IN  IF d1.err THEN [x EXCEPT !.d = d1, !.rc = "ERROR"]
            ELSE DecLoop([x EXCEPT !.d = d1, !.in = Tail(@)])
    ELSE IF x.d.phase = "META" THEN
        DecLoop([x EXCEPT !.d = BlockByteRead(@), !.in = Tail(@)])
    ELSE IF Head(x.in) \notin Byte THEN
        [x EXCEPT !.d.err = TRUE, !.rc = "ERROR"]
    ELSE DecLoop([x EXCEPT !.d = BlockByteRead([@ EXCEPT
                                !.ring = @ \o <<Head(x.in)>>]),
                           !.in = Tail(@)])

\* The state machine of BrotliDecoderDecompressStream, step after step.
DecLoop(x0) == CHOOSE r \in {DecIteration(x) : x \in {x0}} : TRUE

\* BrotliDecoderDecompressStream(state, &available_in, &next_in,
\*                               &available_out, &next_out, &total_out).
BrotliDecoderDecompressStream(d, in, aout) ==
    LET x0 == [d |-> d, in |-> in, aout |-> aout, wr |-> <<>>, rc |-> "ERROR"]
        x1 == IF d.err THEN x0 ELSE DecLoop(x0)
    IN  [r |-> x1.rc, e |-> x1.d, available_in |-> Len(x1.in),
         next_in |-> Len(in) - Len(x1.in), available_out |-> x1.aout,
         written |-> x1.wr]

\* BrotliDecoderTakeOutput(state, &size): as the encoder's, on the ring buffer.
BrotliDecoderTakeOutput(d, size) ==
    LET k == IF d.err THEN 0
             ELSE IF size # 0 THEN Min(size, Len(d.ring)) ELSE Len(d.ring)
    IN  [e |-> [d EXCEPT !.ring = Drop(@, k)], size |-> k,
         bytes |-> Take(d.ring, k)]

\* BrotliDecoderDecompress(in_len, in, &size, out): the whole buffer at once;
\* size comes back as the number of bytes decoded, also on failure.
BrotliDecoderDecompress(in, size) ==
    LET res == BrotliDecoderDecompressStream(DecInit, in, size)
    IN  [r |-> IF res.r = "SUCCESS" THEN 1 ELSE 0,
         size |-> Len(res.written), written |-> res.written]

\* BrotliEncoderCompress(quality, lgwin, mode, in_len, in, &size, out): the
\* whole buffer at once, by a new encoder given the three parameters; size
\* comes back 0 on failure.
BrotliEncoderCompress(quality, lgwin, mode, in, size) ==
    LET e1 == BrotliEncoderSetParameter(EncInit, "BROTLI_PARAM_QUALITY",
                                        quality)
        e2 == BrotliEncoderSetParameter(e1, "BROTLI_PARAM_LGWIN", lgwin)
        e3 == BrotliEncoderSetParameter(e2, "BROTLI_PARAM_MODE", mode)
        res == BrotliEncoderCompressStream(e3, "Finish", in, size)
        ok == size # 0 /\ res.r = 1 /\ BrotliEncoderIsFinished(res.e) = 1
    IN  [r |-> IF ok THEN 1 ELSE 0,
         size |-> IF ok THEN Len(res.written) ELSE 0,
         written |-> res.written]

(* ------------------------ the engine instances ------------------------ *)

\* The addresses of engine instances, and the null pointer.
Addr == 1..MaxAddr
NullPtr == 0

\* No instance exists.
NoInstance == [a \in Addr |-> "free"]

\* Brotli{En,De}coderCreateInstance(None, None, null): the address of the new
\* instance (the lowest free one), null when no memory is left.
CreateInstance(h) ==
    IF \A a \in Addr : h[a] # "free" THEN NullPtr
    ELSE CHOOSE a \in Addr : h[a] = "free" /\ \A b \in 1..(a - 1) : h[b] # "free"

\* The instances once the one of this kind is created at address a.
Created(h, a, kind) == [h EXCEPT ![a] = kind]

\* Brotli{En,De}coderDestroyInstance(state): the instance at a is released;
\* releasing what is not an instance corrupts the library's memory.
DestroyInstance(h, a) ==
    IF a \in Addr /\ h[a] \in {"encoder", "decoder"}
    THEN [h EXCEPT ![a] = "free"]
    ELSE [b \in Addr |-> "corrupt"]

(* --------------------- the sessions of stream.rs ---------------------- *)

\* Result<T, Error> and Option<T>.
Ok(v) == [ok |-> TRUE, val |-> v]
Err == [ok |-> FALSE, val |-> "Error"]
\* Err(Error(())) of a Result<usize, Error>.
ErrSize == [ok |-> FALSE, val |-> 0]
Some(v) == [some |-> TRUE, v |-> v]
NoneSize == [some |-> FALSE, v |-> 0]
NoneSlice == [some |-> FALSE, v |-> <<>>]

CompressOp == {"Process", "Flush", "Finish", "EmitMetadata"}

\* An output view: len bytes of the caller's region, starting off bytes in.
View(off, len) == [off |-> off, len |-> len]

\* A slip in the index: &input[available_in..]
InputAdvance_FromCount(input, available_in) ==
    SubSeq(input, available_in + 1, Len(input))

\* *input = &input[input.len() - available_in..]
InputAdvance(input, available_in) ==
    SubSeq(input, Len(input) - available_in + 1, Len(input))

\* A slip in the range: the view keeps its start, [..available_out].
OutputAdvance_KeepsStart(output, available_out) ==
    View(output.off, available_out)

\* *output = &mut mem::replace(output, &mut [])[out_len - available_out..]
OutputAdvance(output, available_out) ==
    View(output.off + (output.len - available_out), available_out)

\* A slip in the range: [size..] for [..size]
OutputNarrow_Tail(output, size) ==
    View(output.off + size, output.len - size)

\* *output = &mut mem::replace(output, &mut [])[..size]
OutputNarrow(output, size) == View(output.off, size)

\* The derivation without the engine's has-more-output query.
CoStatus_NoHasMore(op, available_in, state) ==
    IF op = "Process" THEN "Finished"
    ELSE IF available_in # 0 THEN "Unfinished"
    ELSE IF op = "Finish" /\ BrotliEncoderIsFinished(state) = 0
    THEN "Unfinished"
    ELSE "Finished"

\* The derivation with the has-more-output test inverted (== 0 for == 1).
CoStatus_Inverted(op, available_in, state) ==
    IF op = "Process" THEN "Finished"
    ELSE IF available_in # 0 THEN "Unfinished"
    ELSE IF BrotliEncoderHasMoreOutput(state) = 0 THEN "Unfinished"
    ELSE IF op = "Finish" /\ BrotliEncoderIsFinished(state) = 0
    THEN "Unfinished"
    ELSE "Finished"

\* The derivation with Finish treated as Process is.
CoStatus_FinishAsProcess(op, available_in, state) ==
    IF op \in {"Process", "Finish"} THEN "Finished"
    ELSE IF available_in # 0 THEN "Unfinished"
    ELSE IF BrotliEncoderHasMoreOutput(state) = 1 THEN "Unfinished"
    ELSE "Finished"

\* The derivation without the special case of Process.
CoStatus_NoProcessCase(op, available_in, state) ==
    IF available_in # 0 THEN "Unfinished"
    ELSE IF BrotliEncoderHasMoreOutput(state) = 1 THEN "Unfinished"
    ELSE IF op = "Finish" /\ BrotliEncoderIsFinished(state) = 0
    THEN "Unfinished"
    ELSE "Finished"

\* The status Compress::compress derives once the engine has succeeded.
CoStatus(op, available_in, state) ==
    IF op = "Process" THEN "Finished"
    ELSE IF available_in # 0 THEN "Unfinished"
    ELSE IF BrotliEncoderHasMoreOutput(state) = 1 THEN "Unfinished"
    ELSE IF op = "Finish" /\ BrotliEncoderIsFinished(state) = 0
    THEN "Unfinished"
    ELSE "Finished"

\* Compress::compress(&mut self, op, &mut input, &mut output).
Compress_compress(state, op, input, output) ==
    LET res == BrotliEncoderCompressStream(state, op, input, output.len)
    IN  [state |-> res.e,
         input |-> InputAdvance(input, res.available_in),
         output |-> OutputAdvance(output, res.available_out),
         ret |-> IF res.r = 0 THEN Err
                 ELSE Ok(CoStatus(op, res.available_in, res.e)),
         eng |-> res]

\* impl error::Error for Error: description(&self).
Error_description(self) == "brotli error"

\* impl fmt::Display for Error: what fmt writes.
Error_fmt(self) == Error_description(self)

\* impl From<Error> for io::Error.
io_Error_from(err) == [kind |-> "Other", error |-> "brotli error"]

\* A result whose error carries the engine's code.
Decompress_rc_Coded(rc) ==
    CASE rc = "ERROR" -> [ok |-> FALSE, val |-> "Error: ERROR"]
      [] rc = "SUCCESS" -> Ok("Finished")
      [] rc = "NEEDS_MORE_INPUT" -> Ok("NeedInput")
      [] rc = "NEEDS_MORE_OUTPUT" -> Ok("NeedOutput")
      [] OTHER -> [ok |-> FALSE, val |-> "panic"]

\* The two partial-progress codes exchanged.
Decompress_rc_Swapped(rc) ==
    CASE rc = "ERROR" -> Err
      [] rc = "SUCCESS" -> Ok("Finished")
      [] rc = "NEEDS_MORE_INPUT" -> Ok("NeedOutput")
      [] rc = "NEEDS_MORE_OUTPUT" -> Ok("NeedInput")
      [] OTHER -> [ok |-> FALSE, val |-> "panic"]

\* Decompress::rc: the engine's result code as a Result<DeStatus, Error>.
Decompress_rc(rc) ==
    CASE rc = "ERROR" -> Err
      [] rc = "SUCCESS" -> Ok("Finished")
      [] rc = "NEEDS_MORE_INPUT" -> Ok("NeedInput")
      [] rc = "NEEDS_MORE_OUTPUT" -> Ok("NeedOutput")
      [] OTHER -> [ok |-> FALSE, val |-> "panic"]

\* decompress that advances the views only when the engine did not fail.
Decompress_decompress_RestoresOnError(state, input, output) ==
    LET res == BrotliDecoderDecompressStream(state, input, output.len)
        failed == ~Decompress_rc(res.r).ok
    IN  [state |-> res.e,
         input |-> IF failed THEN input
                   ELSE InputAdvance(input, res.available_in),
         output |-> IF failed THEN output
                    ELSE OutputAdvance(output, res.available_out),
         ret |-> Decompress_rc(res.r),
         eng |-> res]

\* Decompress::decompress(&mut self, &mut input, &mut output).
Decompress_decompress(state, input, output) ==
    LET res == BrotliDecoderDecompressStream(state, input, output.len)
    IN  [state |-> res.e,
         input |-> InputAdvance(input, res.available_in),
         output |-> OutputAdvance(output, res.available_out),
         ret |-> Decompress_rc(res.r),
         eng |-> res]

\* take_output without the early return: the engine reads 0 as "no limit".
Compress_take_output_NoEarlyReturn(state, size_limit) ==
    LET res == BrotliEncoderTakeOutput(state,
                   IF size_limit.some THEN size_limit.v ELSE 0)
    IN  [state |-> res.e,
         ret |-> IF res.size = 0 THEN NoneSlice ELSE Some(res.bytes)]

\* take_output that reports None for a slice of one byte.
Compress_take_output_DropsOne(state, size_limit) ==
    IF size_limit = Some(0) THEN [state |-> state, ret |-> NoneSlice]
    ELSE LET res == BrotliEncoderTakeOutput(state,
                        IF size_limit.some THEN size_limit.v ELSE 0)
         IN  [state |-> res.e,
              ret |-> IF res.size <= 1 THEN NoneSlice ELSE Some(res.bytes)]

\* Compress::take_output(&mut self, size_limit).
Compress_take_output(state, size_limit) ==
    IF size_limit = Some(0) THEN [state |-> state, ret |-> NoneSlice]
    ELSE LET res == BrotliEncoderTakeOutput(state,
                        IF size_limit.some THEN size_limit.v ELSE 0)
         IN  [state |-> res.e,
              ret |-> IF res.size = 0 THEN NoneSlice ELSE Some(res.bytes)]

\* take_output without the test of the size the engine hands back.
Decompress_take_output_NoSizeTest(state, size_limit) ==
    IF size_limit = Some(0) THEN [state |-> state, ret |-> NoneSlice]
    ELSE LET res == BrotliDecoderTakeOutput(state,
                        IF size_limit.some THEN size_limit.v ELSE 0)
         IN  [state |-> res.e, ret |-> Some(res.bytes)]

\* Decompress::take_output(&mut self, size_limit).
Decompress_take_output(state, size_limit) ==
    IF size_limit = Some(0) THEN [state |-> state, ret |-> NoneSlice]
    ELSE LET res == BrotliDecoderTakeOutput(state,
                        IF size_limit.some THEN size_limit.v ELSE 0)
         IN  [state |-> res.e,
              ret |-> IF res.size = 0 THEN NoneSlice ELSE Some(res.bytes)]

\* compress_buf that gives the engine the block bits as well, as set_params
\* does.
compress_buf_ForwardsBlock(params, input, output) ==
    LET e == BrotliEncoderSetParameter(
                 BrotliEncoderSetParameter(
                     BrotliEncoderSetParameter(
                         BrotliEncoderSetParameter(EncInit,
                             "BROTLI_PARAM_QUALITY", params.quality),
                         "BROTLI_PARAM_LGWIN", params.lgwin),
                     "BROTLI_PARAM_MODE", params.mode),
                 "BROTLI_PARAM_LGBLOCK", params.lgblock)
        s == BrotliEncoderCompressStream(e, "Finish", input, output.len)
        ok == output.len # 0 /\ s.r = 1 /\ BrotliEncoderIsFinished(s.e) = 1
        res == [r |-> IF ok THEN 1 ELSE 0,
                size |-> IF ok THEN Len(s.written) ELSE 0,
                written |-> s.written]
    IN  [output |-> OutputNarrow(output, res.size),
         ret |-> IF res.r = 0 THEN ErrSize ELSE Ok(res.size),
         eng |-> res]

\* compress_buf(params, input, &mut output).
compress_buf(params, input, output) ==
    LET res == BrotliEncoderCompress(params.quality, params.lgwin,
                                     params.mode, input, output.len)
    IN  [output |-> OutputNarrow(output, res.size),
         ret |-> IF res.r = 0 THEN ErrSize ELSE Ok(res.size),
         eng |-> res]

\* decompress_buf without the test of the engine's result.
decompress_buf_NoTest(input, output) ==
    LET res == BrotliDecoderDecompress(input, output.len)
    IN  [output |-> OutputNarrow(output, res.size),
         ret |-> Ok(res.size),
         eng |-> res]

\* decompress_buf(input, &mut output).
decompress_buf(input, output) ==
    LET res == BrotliDecoderDecompress(input, output.len)
    IN  [output |-> OutputNarrow(output, res.size),
         ret |-> IF res.r = 0 THEN ErrSize ELSE Ok(res.size),
         eng |-> res]

(* -------------------------- the parameter set ------------------------- *)

\* The u32 values the fields are given: inside the documented ranges, at
\* their ends, and beyond them up to and past the width of usize.
QualityValue == {0, BROTLI_DEFAULT_QUALITY, 12}
LgValue == {0, 10, 16, BROTLI_DEFAULT_WINDOW, 24, 31, 32, 63, 64, 100}

\* The builds of the crate: usize of 32 or 64 bits, arithmetic overflow
\* checked (it panics) or not (a shift amount wraps at the width).
Build == [width : {32, 64}, overflow_checks : BOOLEAN]

\* A usize as the set of the positions of its one bits, or a panic.
USize(bits) == [panic |-> FALSE, bits |-> bits]
Panic == [panic |-> TRUE, bits |-> {}]

\* The number 2^n: its only one bit is at position n.
PowerOfTwo(n) == USize({n})

\* 1usize << n, n: u32.
ShlOne(n, build) ==
    IF n < build.width THEN USize({n})
    ELSE IF build.overflow_checks THEN Panic
    ELSE USize({n % build.width})

\* CompressParams::new()
CompressParams_new ==
    [mode |-> BROTLI_DEFAULT_MODE, quality |-> BROTLI_DEFAULT_QUALITY,
     lgwin |-> BROTLI_DEFAULT_WINDOW, lgblock |-> 0]

\* CompressParams::mode, quality, lgwin, lgblock: the setters.
CompressParams_mode(self, mode) == [self EXCEPT !.mode = mode]
CompressParams_quality(self, quality) == [self EXCEPT !.quality = quality]
CompressParams_lgwin(self, lgwin) == [self EXCEPT !.lgwin = lgwin]
CompressParams_lgblock(self, lgblock) == [self EXCEPT !.lgblock = lgblock]

\* A readable accessor that reads the other field.
get_lgwin_readable_OfBlock(self, build) == ShlOne(self.lgblock, build)

\* CompressParams::get_lgblock_readable, get_lgblock, get_lgwin_readable,
\* get_lgwin.
get_lgblock_readable(self, build) == ShlOne(self.lgblock, build)
get_lgblock(self) == self.lgblock
get_lgwin_readable(self, build) == ShlOne(self.lgwin, build)
get_lgwin(self) == self.lgwin

\* The parameter sets a CompressParams can be brought to hold.
ParamSet ==
    [mode : CompressMode, quality : QualityValue, lgwin : LgValue,
     lgblock : LgValue]

\* The parameter sets given to compress_buf: block bits unset, at both ends
\* of their range and between, under either way of deriving them.
BufParams ==
    [mode : CompressMode, quality : QualityValue, lgwin : {16, 22},
     lgblock : {0, 16, 22, 24}]

\* The parameter sets given to a session: the default one, and one that
\* differs from it in every field.
SomeParams ==
    {CompressParams_new,
     [mode |-> BROTLI_MODE_FONT, quality |-> 0, lgwin |-> 10, lgblock |-> 16]}

\* set_params with the quality applied before the mode.
Compress_set_params_QualityFirst(state, params) ==
    [state |-> BrotliEncoderSetParameter(
                   BrotliEncoderSetParameter(
                       BrotliEncoderSetParameter(
                           BrotliEncoderSetParameter(state,
                               "BROTLI_PARAM_QUALITY", params.quality),
                           "BROTLI_PARAM_MODE", params.mode),
                       "BROTLI_PARAM_LGWIN", params.lgwin),
                   "BROTLI_PARAM_LGBLOCK", params.lgblock),
     calls |-> <<<<"BROTLI_PARAM_QUALITY", params.quality>>,
                 <<"BROTLI_PARAM_MODE", params.mode>>,
                 <<"BROTLI_PARAM_LGWIN", params.lgwin>>,
                 <<"BROTLI_PARAM_LGBLOCK", params.lgblock>>>>,
     params |-> params]

\* Compress::set_params(&mut self, params: &CompressParams): the engine it
\* leaves, the set-parameter calls it makes in order, and the parameter set.
Compress_set_params(state, params) ==
    LET e1 == BrotliEncoderSetParameter(state, "BROTLI_PARAM_MODE",
                                        params.mode)
        e2 == BrotliEncoderSetParameter(e1, "BROTLI_PARAM_QUALITY",
                                        params.quality)
        e3 == BrotliEncoderSetParameter(e2, "BROTLI_PARAM_LGWIN",
                                        params.lgwin)
        e4 == BrotliEncoderSetParameter(e3, "BROTLI_PARAM_LGBLOCK",
                                        params.lgblock)
    IN  [state |-> e4,
         calls |-> <<<<"BROTLI_PARAM_MODE", params.mode>>,
                     <<"BROTLI_PARAM_QUALITY", params.quality>>,
                     <<"BROTLI_PARAM_LGWIN", params.lgwin>>,
                     <<"BROTLI_PARAM_LGBLOCK", params.lgblock>>>>,
         params |-> params]

(* ------------------------------- state -------------------------------- *)

VARIABLES
    live,   \* the sessions that exist: "c" (a Compress), "d" (a Decompress)
    enc,    \* the engine state owned by the Compress session
    dec,    \* the engine state owned by the Decompress session
    heap,   \* the engine instances that exist, by address
    ptr,    \* the state field of each session: the address of its instance
    last,   \* the most recent call: its arguments and what it handed back
    drv,    \* the caller's own state when it runs a whole round trip
    solo    \* each session's engine, and the last call, with its calls run alone

vars == <<live, enc, dec, heap, ptr, last, drv, solo>>

\* The record of a call; the fields a call does not have keep these values.
NoCall ==
    [kind |-> "none", op |-> "-", limit |-> NoneSize,
     input |-> <<>>, output |-> View(0, 0),
     inputAfter |-> <<>>, outputAfter |-> View(0, 0),
     ret |-> Ok("-"), took |-> NoneSlice, size |-> Ok(0),
     r |-> 1, rc |-> "-", next_in |-> 0, written |-> <<>>,
     engine |-> <<>>, destroyed |-> <<>>,
     params |-> CompressParams_new, paramsAfter |-> CompressParams_new,
     arg |-> 0, build |-> [width |-> 64, overflow_checks |-> FALSE],
     value |-> USize({}), got |-> 0, setparam |-> <<>>]

\* No session exists.
NoSession == [c |-> NullPtr, d |-> NullPtr]

\* The bytes a caller may put in an encoded input: plain bytes and the
\* format's header bytes, so both well-formed and malformed streams occur.
EncodedByte ==
    Byte \cup {HdrBase + n : n \in 1..BlockSize} \cup {LastMark}
         \cup {MetaBase + n : n \in 0..MetaCap}

SizeLimit == {NoneSize} \cup {Some(n) : n \in 0..MaxLimit}

\* A caller that runs no round trip.
NoDriver ==
    [pc |-> "free", split |-> FALSE, data |-> <<>>, plan |-> <<>>,
     input |-> <<>>, status |-> "-", stream |-> <<>>, plain |-> <<>>,
     count |-> 0, cut |-> 0]

\* What a call hands back to the caller: the status of a step call, the
\* views as it leaves them, the slice of a take_output.
NoResult ==
    [ret |-> Ok("-"), input |-> <<>>, output |-> View(0, 0),
     took |-> NoneSlice]

\* Nothing has run alone.
NoSolo == [enc |-> EncInit, dec |-> DecInit, res |-> NoResult]

Init ==
    /\ live = {}
    /\ heap = NoInstance
    /\ ptr = NoSession
    /\ solo = NoSolo
    /\ enc = EncInit
    /\ dec = DecInit
    /\ last = NoCall
    /\ drv = NoDriver

\* Compress::new()
CompressNewCall ==
    LET state == CreateInstance(heap)
    IN  /\ "c" \notin live
        /\ state # NullPtr
        /\ live' = live \cup {"c"}
        /\ heap' = Created(heap, state, "encoder")
        /\ ptr' = [ptr EXCEPT !.c = state]
        /\ enc' = EncInit
        /\ last' = [NoCall EXCEPT !.kind = "cnew"]
        /\ UNCHANGED dec

\* Decompress::new()
DecompressNewCall ==
    LET state == CreateInstance(heap)
    IN  /\ "d" \notin live
        /\ state # NullPtr
        /\ live' = live \cup {"d"}
        /\ heap' = Created(heap, state, "decoder")
        /\ ptr' = [ptr EXCEPT !.d = state]
        /\ dec' = DecInit
        /\ last' = [NoCall EXCEPT !.kind = "dnew"]
        /\ UNCHANGED enc

\* A drop that forgets the teardown call.
CompressDropCall_NoTeardown ==
    /\ "c" \in live
    /\ live' = live \ {"c"}
    /\ ptr' = [ptr EXCEPT !.c = NullPtr]
    /\ enc' = EncInit
    /\ last' = [NoCall EXCEPT !.kind = "cdrop"]
    /\ UNCHANGED <<dec, heap>>

\* impl Drop for Compress: the engine instance is destroyed.
CompressDropCall ==
    /\ "c" \in live
    /\ live' = live \ {"c"}
    /\ heap' = DestroyInstance(heap, ptr.c)
    /\ ptr' = [ptr EXCEPT !.c = NullPtr]
    /\ enc' = EncInit
    /\ last' = [NoCall EXCEPT !.kind = "cdrop", !.destroyed = <<ptr.c>>]
    /\ UNCHANGED dec

\* impl Drop for Decompress: the engine instance is destroyed.
DecompressDropCall ==
    /\ "d" \in live
    /\ live' = live \ {"d"}
    /\ heap' = DestroyInstance(heap, ptr.d)
    /\ ptr' = [ptr EXCEPT !.d = NullPtr]
    /\ dec' = DecInit
    /\ last' = [NoCall EXCEPT !.kind = "ddrop", !.destroyed = <<ptr.d>>]
    /\ UNCHANGED enc

\* c.compress(op, &mut input, &mut output)
CompressCall(op, input, output) ==
    LET c == Compress_compress(enc, op, input, output)
    IN  /\ "c" \in live
        /\ enc' = c.state
        /\ last' = [NoCall EXCEPT
                !.kind = "compress", !.op = op, !.engine = <<ptr.c>>,
                !.input = input, !.output = output,
                !.inputAfter = c.input, !.outputAfter = c.output,
                !.ret = c.ret, !.r = c.eng.r,
                !.next_in = c.eng.next_in, !.written = c.eng.written]
        /\ UNCHANGED <<live, dec, heap, ptr>>

\* d.decompress(&mut input, &mut output)
DecompressCall(input, output) ==
    LET c == Decompress_decompress(dec, input, output)
    IN  /\ "d" \in live
        /\ dec' = c.state
        /\ last' = [NoCall EXCEPT
                !.kind = "decompress", !.engine = <<ptr.d>>,
                !.input = input, !.output = output,
                !.inputAfter = c.input, !.outputAfter = c.output,
                !.ret = c.ret, !.rc = c.eng.r,
                !.next_in = c.eng.next_in, !.written = c.eng.written]
        /\ UNCHANGED <<live, enc, heap, ptr>>

\* c.take_output(size_limit)
CompressTakeCall(size_limit) ==
    LET c == Compress_take_output(enc, size_limit)
    IN  /\ "c" \in live
        /\ enc' = c.state
        /\ last' = [NoCall EXCEPT !.kind = "ctake", !.limit = size_limit,
                                  !.engine = IF size_limit = Some(0) THEN <<>>
                                             ELSE <<ptr.c>>,
                                  !.took = c.ret]
        /\ UNCHANGED <<live, dec, heap, ptr>>

\* A drain that works on state the two sessions share: it also empties the
\* Compress session's buffered output.
DecompressTakeCall_Shared(size_limit) ==
    LET c == Decompress_take_output(dec, size_limit)
    IN  /\ "d" \in live
        /\ dec' = c.state
        /\ enc' = [enc EXCEPT !.out = <<>>]
        /\ last' = [NoCall EXCEPT !.kind = "dtake", !.limit = size_limit,
                                  !.engine = IF size_limit = Some(0) THEN <<>>
                                             ELSE <<ptr.d>>,
                                  !.took = c.ret]
        /\ UNCHANGED <<live, heap, ptr>>

\* d.take_output(size_limit)
DecompressTakeCall(size_limit) ==
    LET c == Decompress_take_output(dec, size_limit)
    IN  /\ "d" \in live
        /\ dec' = c.state
        /\ last' = [NoCall EXCEPT !.kind = "dtake", !.limit = size_limit,
                                  !.engine = IF size_limit = Some(0) THEN <<>>
                                             ELSE <<ptr.d>>,
                                  !.took = c.ret]
        /\ UNCHANGED <<live, enc, heap, ptr>>

\* c.set_params(&params)
CompressSetParamsCall(params) ==
    LET c == Compress_set_params(enc, params)
    IN  /\ "c" \in live
        /\ enc' = c.state
        /\ last' = [NoCall EXCEPT !.kind = "set_params",
                                  !.engine = <<ptr.c>>,
                                  !.params = params, !.paramsAfter = c.params,
                                  !.setparam = c.calls]
        /\ UNCHANGED <<live, dec, heap, ptr>>

\* The calls of a caller that runs no round trip.
CompressSetParams(params) ==
    CompressSetParamsCall(params) /\ UNCHANGED <<drv, solo>>
CompressNew ==
    Cardinality(live) < MaxLive /\ CompressNewCall /\ UNCHANGED <<drv, solo>>
DecompressNew ==
    Cardinality(live) < MaxLive /\ DecompressNewCall /\ UNCHANGED <<drv, solo>>
CompressDrop == CompressDropCall /\ UNCHANGED <<drv, solo>>
DecompressDrop == DecompressDropCall /\ UNCHANGED <<drv, solo>>
Compress(op, input, output) ==
    CompressCall(op, input, output) /\ UNCHANGED <<drv, solo>>
Decompress(input, output) ==
    DecompressCall(input, output) /\ UNCHANGED <<drv, solo>>
CompressTake(size_limit) ==
    CompressTakeCall(size_limit) /\ UNCHANGED <<drv, solo>>
DecompressTake(size_limit) ==
    DecompressTakeCall(size_limit) /\ UNCHANGED <<drv, solo>>

\* compress_buf(&params, input, &mut output), on the arguments drawn.
CompressBuf ==
    LET c == compress_buf(last.params, last.input, last.output)
    IN  /\ last.kind = "call compress_buf"
        /\ last' = [last EXCEPT
                !.kind = "compress_buf",
                !.outputAfter = c.output, !.size = c.ret,
                !.r = c.eng.r, !.written = c.eng.written]
        /\ UNCHANGED <<live, enc, dec, heap, ptr, drv, solo>>

\* decompress_buf(input, &mut output), on the arguments drawn.
DecompressBuf ==
    LET c == decompress_buf(last.input, last.output)
    IN  /\ last.kind = "call decompress_buf"
        /\ last' = [last EXCEPT
                !.kind = "decompress_buf",
                !.outputAfter = c.output, !.size = c.ret,
                !.r = c.eng.r, !.written = c.eng.written]
        /\ UNCHANGED <<live, enc, dec, heap, ptr, drv, solo>>

Next ==
    \/ CompressNew
    \/ DecompressNew
    \/ CompressDrop
    \/ DecompressDrop
    \/ \E op \in CompressOp, input \in SeqUpTo(Byte, MaxIn), n \in 0..MaxOut :
          Compress(op, input, View(0, n))
    \/ \E input \in SeqUpTo(EncodedByte, MaxIn), n \in 0..MaxOut :
          Decompress(input, View(0, n))
    \/ \E l \in SizeLimit : CompressTake(l)
    \/ \E l \in SizeLimit : DecompressTake(l)
    \/ \E params \in SomeParams : CompressSetParams(params)

\* A caller that creates sessions and calls them in any order, with any
\* arguments.
Spec == Init /\ [][Next]_vars

\* The arguments of a one-shot call: an input and an output region.
InitOneShot ==
    /\ live = {}
    /\ heap = NoInstance
    /\ ptr = NoSession
    /\ solo = NoSolo
    /\ enc = EncInit
    /\ dec = DecInit
    /\ drv = NoDriver
    /\ \E n \in 0..MaxRegion :
          \/ \E input \in SeqUpTo(Byte, MaxData), params \in BufParams :
                last = [NoCall EXCEPT !.kind = "call compress_buf",
                            !.params = params,
                            !.input = input, !.output = View(0, n)]
          \/ \E input \in SeqUpTo(EncodedByte, MaxStream) :
                last = [NoCall EXCEPT !.kind = "call decompress_buf",
                            !.input = input, !.output = View(0, n)]

NextOneShot == CompressBuf \/ DecompressBuf

\* A caller of the one-shot functions, which own no session.
OneShot == InitOneShot /\ [][NextOneShot]_vars

(* ----------------------- building a parameter set -------------------- *)

\* A method of CompressParams is about to be called on the set p.
ParamsCall(kind, p, arg, build) ==
    [NoCall EXCEPT !.kind = kind, !.params = p, !.paramsAfter = p,
                   !.arg = arg, !.build = build]

InitParams ==
    /\ live = {}
    /\ heap = NoInstance
    /\ ptr = NoSession
    /\ solo = NoSolo
    /\ enc = EncInit
    /\ dec = DecInit
    /\ drv = NoDriver
    /\ \E p \in ParamSet :
          \/ last = ParamsCall("call new", p, 0, NoCall.build)
          \/ \E v \in CompressMode :
                last = ParamsCall("call mode", p, v, NoCall.build)
          \/ \E v \in QualityValue :
                last = ParamsCall("call quality", p, v, NoCall.build)
          \/ \E v \in LgValue, k \in {"call lgwin", "call lgblock"} :
                last = ParamsCall(k, p, v, NoCall.build)
          \/ \E k \in {"call get_lgwin", "call get_lgblock"} :
                last = ParamsCall(k, p, 0, NoCall.build)
          \/ \E b \in Build,
                k \in {"call get_lgwin_readable", "call get_lgblock_readable"} :
                last = ParamsCall(k, p, 0, b)

\* What a call on the parameter set leaves alone.
ParamsFrame == UNCHANGED <<live, enc, dec, heap, ptr, drv, solo>>

\* let params = CompressParams::new();
ParamsNew ==
    /\ last.kind = "call new"
    /\ last' = [last EXCEPT !.kind = "new",
                            !.paramsAfter = CompressParams_new]
    /\ ParamsFrame

\* params.mode(mode), params.quality(quality), params.lgwin(lgwin),
\* params.lgblock(lgblock)
ParamsMode ==
    /\ last.kind = "call mode"
    /\ last' = [last EXCEPT !.kind = "mode",
                   !.paramsAfter = CompressParams_mode(last.params, last.arg)]
    /\ ParamsFrame
ParamsQuality ==
    /\ last.kind = "call quality"
    /\ last' = [last EXCEPT !.kind = "quality",
                   !.paramsAfter = CompressParams_quality(last.params, last.arg)]
    /\ ParamsFrame
ParamsLgwin ==
    /\ last.kind = "call lgwin"
    /\ last' = [last EXCEPT !.kind = "lgwin",
                   !.paramsAfter = CompressParams_lgwin(last.params, last.arg)]
    /\ ParamsFrame
ParamsLgblock ==
    /\ last.kind = "call lgblock"
    /\ last' = [last EXCEPT !.kind = "lgblock",
                   !.paramsAfter = CompressParams_lgblock(last.params, last.arg)]
    /\ ParamsFrame

\* params.get_lgwin(), params.get_lgblock()
ParamsGetLgwin ==
    /\ last.kind = "call get_lgwin"
    /\ last' = [last EXCEPT !.kind = "get_lgwin",
                            !.got = get_lgwin(last.params)]
    /\ ParamsFrame
ParamsGetLgblock ==
    /\ last.kind = "call get_lgblock"
    /\ last' = [last EXCEPT !.kind = "get_lgblock",
                            !.got = get_lgblock(last.params)]
    /\ ParamsFrame

\* params.get_lgwin_readable(), params.get_lgblock_readable()
ParamsGetLgwinReadable ==
    /\ last.kind = "call get_lgwin_readable"
    /\ last' = [last EXCEPT !.kind = "get_lgwin_readable",
                   !.value = get_lgwin_readable(last.params, last.build)]
    /\ ParamsFrame
ParamsGetLgblockReadable ==
    /\ last.kind = "call get_lgblock_readable"
    /\ last' = [last EXCEPT !.kind = "get_lgblock_readable",
                   !.value = get_lgblock_readable(last.params, last.build)]
    /\ ParamsFrame

NextParams ==
    \/ ParamsNew
    \/ ParamsMode
    \/ ParamsQuality
    \/ ParamsLgwin
    \/ ParamsLgblock
    \/ ParamsGetLgwin
    \/ ParamsGetLgblock
    \/ ParamsGetLgwinReadable
    \/ ParamsGetLgblockReadable

\* A caller of the methods of CompressParams, which touch no session.
Params == InitParams /\ [][NextParams]_vars

(* ---------------------- two sessions at a time ----------------------- *)

\* The arguments of the calls when two sessions are alive: short slices of
\* one plain byte value, streams of that byte, a one-byte block header and
\* the end mark, and the limits None, Some(0), Some(1).
PairIn == 1
PairOut == 1
PairByte == {0}
PairEncodedByte == PairByte \cup {HdrBase + 1, LastMark}
PairLimit == {NoneSize, Some(0), Some(1)}

\* Each call is also made on the engine of the session run alone.
PairCompressNew ==
    /\ CompressNewCall
    /\ solo' = [solo EXCEPT !.enc = EncInit, !.res = NoResult]
    /\ UNCHANGED drv
PairDecompressNew ==
    /\ DecompressNewCall
    /\ solo' = [solo EXCEPT !.dec = DecInit, !.res = NoResult]
    /\ UNCHANGED drv
PairCompressDrop ==
    /\ CompressDropCall
    /\ solo' = [solo EXCEPT !.enc = EncInit, !.res = NoResult]
    /\ UNCHANGED drv
PairDecompressDrop ==
    /\ DecompressDropCall
    /\ solo' = [solo EXCEPT !.dec = DecInit, !.res = NoResult]
    /\ UNCHANGED drv
PairCompress(op, input, output) ==
    /\ CompressCall(op, input, output)
    /\ LET c == Compress_compress(solo.enc, op, input, output)
       IN  solo' = [solo EXCEPT !.enc = c.state,
                       !.res = [NoResult EXCEPT !.ret = c.ret,
                                   !.input = c.input, !.output = c.output]]
    /\ UNCHANGED drv
PairDecompress(input, output) ==
    /\ DecompressCall(input, output)
    /\ LET c == Decompress_decompress(solo.dec, input, output)
       IN  solo' = [solo EXCEPT !.dec = c.state,
                       !.res = [NoResult EXCEPT !.ret = c.ret,
                                   !.input = c.input, !.output = c.output]]
    /\ UNCHANGED drv
PairCompressSetParams(params) ==
    /\ CompressSetParamsCall(params)
    /\ solo' = [solo EXCEPT
                   !.enc = Compress_set_params(solo.enc, params).state,
                   !.res = NoResult]
    /\ UNCHANGED drv
PairCompressTake(size_limit) ==
    /\ CompressTakeCall(size_limit)
    /\ LET c == Compress_take_output(solo.enc, size_limit)
       IN  solo' = [solo EXCEPT !.enc = c.state,
                       !.res = [NoResult EXCEPT !.took = c.ret]]
    /\ UNCHANGED drv
PairDecompressTake(size_limit) ==
    /\ DecompressTakeCall(size_limit)
    /\ LET c == Decompress_take_output(solo.dec, size_limit)
       IN  solo' = [solo EXCEPT !.dec = c.state,
                       !.res = [NoResult EXCEPT !.took = c.ret]]
    /\ UNCHANGED drv

NextPair ==
    \/ PairCompressNew
    \/ PairDecompressNew
    \/ PairCompressDrop
    \/ PairDecompressDrop
    \/ \E op \in CompressOp, input \in SeqUpTo(PairByte, PairIn),
          n \in 0..PairOut :
          PairCompress(op, input, View(0, n))
    \/ \E input \in SeqUpTo(PairEncodedByte, PairIn), n \in 0..PairOut :
          PairDecompress(input, View(0, n))
    \/ \E l \in PairLimit : PairCompressTake(l)
    \/ \E l \in PairLimit : PairDecompressTake(l)
    \/ \E params \in SomeParams : PairCompressSetParams(params)

\* A caller that keeps a Compress and a Decompress alive at the same time and
\* interleaves their calls in any order.
Pair == Init /\ [][NextPair]_vars

(* ------------------------- a whole round trip ------------------------- *)

\* The caller of the doc example and of tests::compress_smoke: it compresses
\* data chunk by chunk, each chunk with one operation repeated until it
\* returns Finished, collects the output, then decompresses what it collected.
\* Its output is one accumulating region: drv.stream (then drv.plain) is the
\* part filled so far, and every step call gets the view of the n bytes that
\* follow it.

\* The sizes of those views: none (the doc example's nilbuf), a few bytes,
\* or room for everything (the tests' 128 bytes).
ViewSize == (0..MaxOut) \cup {MaxRegion}

\* The limits the caller drains with (the doc example uses None).
DrainLimit == SizeLimit \ {Some(0)}

\* The region once the engine has written into the view that follows filled.
RegionAfter(filled, output, written) ==
    filled \o written \o [i \in 1..(output.len - Len(written)) |-> 0]

\* The bytes of the region that lie before the view, and inside it.
Before(region, output) == SubSeq(region, 1, output.off)
Inside(region, output) == SubSeq(region, output.off + 1, output.off + output.len)

\* data cut in two at k: the first part to Flush, the rest to Finish.
SplitPlan(data, k) ==
    <<[bytes |-> Take(data, k), op |-> "Flush"],
      [bytes |-> Drop(data, k), op |-> "Finish"]>>

InitDriver ==
    /\ live = {}
    /\ heap = NoInstance
    /\ ptr = NoSession
    /\ solo = NoSolo
    /\ enc = EncInit
    /\ dec = DecInit
    /\ last = NoCall
    /\ \E data \in SeqUpTo(Byte, MaxData) :
          \/ drv = [NoDriver EXCEPT !.pc = "c_start", !.data = data,
                        !.plan = <<[bytes |-> data, op |-> "Finish"]>>]
          \/ \E k \in 0..Len(data) :
                drv = [NoDriver EXCEPT !.pc = "c_start", !.split = TRUE,
                          !.data = data, !.plan = SplitPlan(data, k),
                          !.cut = k]

\* compress_buf(&CompressParams::new(), data, &mut region)
DrvCompressBuf(n) ==
    /\ drv.pc = "c_start" /\ ~drv.split
    /\ UNCHANGED solo
    /\ LET c == compress_buf(CompressParams_new, drv.data, View(0, n))
           region == RegionAfter(<<>>, View(0, n), c.eng.written)
       IN
        /\ last' = [NoCall EXCEPT
                !.kind = "compress_buf",
                !.input = drv.data, !.output = View(0, n),
                !.outputAfter = c.output, !.size = c.ret,
                !.r = c.eng.r, !.written = c.eng.written]
        /\ drv' = IF c.ret.ok
                  THEN [drv EXCEPT !.pc = "d_start",
                                   !.stream = Inside(region, c.output)]
                  ELSE [drv EXCEPT !.pc = "failed"]
        /\ UNCHANGED <<live, enc, dec, heap, ptr>>

\* let mut compress = Compress::new();
DrvCompressNew ==
    /\ drv.pc = "c_start"
    /\ UNCHANGED solo
    /\ CompressNewCall
    /\ drv' = [drv EXCEPT !.pc = "c_step", !.input = drv.plan[1].bytes]

\* compress.compress(op, &mut input, &mut output), repeating the operation
\* of the current chunk on the input view as the last call left it.
DrvCompress(n) ==
    /\ drv.pc = "c_step"
    /\ UNCHANGED solo
    /\ LET output == View(Len(drv.stream), n)
       IN
        /\ CompressCall(drv.plan[1].op, drv.input, output)
        /\ drv' = [drv EXCEPT
                !.pc = IF last'.ret.ok THEN "c_drain" ELSE "failed",
                !.status = last'.ret.val,
                !.input = last'.inputAfter,
                !.stream = Before(RegionAfter(@, output, last'.written),
                                  last'.outputAfter)]

\* while let Some(buf) = compress.take_output(limit) { extend_from_slice }
\* and, once it returns None, the match on the status of the step call.
DrvCompressTake(l) ==
    /\ drv.pc = "c_drain"
    /\ UNCHANGED solo
    /\ CompressTakeCall(l)
    /\ drv' = IF last'.took.some
              THEN [drv EXCEPT !.stream = @ \o last'.took.v]
              ELSE IF drv.status = "Unfinished"
              THEN [drv EXCEPT !.pc = "c_step"]
              ELSE IF Len(drv.plan) > 1
              THEN [drv EXCEPT !.pc = "c_step", !.plan = Tail(@),
                               !.input = drv.plan[2].bytes]
              ELSE [drv EXCEPT !.pc = "c_done", !.plan = <<>>]

\* The compressor goes out of scope.
DrvCompressDrop ==
    /\ drv.pc = "c_done"
    /\ UNCHANGED solo
    /\ CompressDropCall
    /\ drv' = [drv EXCEPT !.pc = "d_start"]

\* decompress_buf(&compressed, &mut region)
DrvDecompressBuf(n) ==
    /\ drv.pc = "d_start"
    /\ UNCHANGED solo
    /\ LET c == decompress_buf(drv.stream, View(0, n))
           region == RegionAfter(<<>>, View(0, n), c.eng.written)
       IN
        /\ last' = [NoCall EXCEPT
                !.kind = "decompress_buf",
                !.input = drv.stream, !.output = View(0, n),
                !.outputAfter = c.output, !.size = c.ret,
                !.r = c.eng.r, !.written = c.eng.written]
        /\ drv' = IF c.ret.ok
                  THEN [drv EXCEPT !.pc = "done", !.count = c.ret.val,
                                   !.plain = Inside(region, c.output)]
                  ELSE [drv EXCEPT !.pc = "failed"]
        /\ UNCHANGED <<live, enc, dec, heap, ptr>>

\* let mut d = Decompress::new();
DrvDecompressNew ==
    /\ drv.pc = "d_start"
    /\ UNCHANGED solo
    /\ DecompressNewCall
    /\ drv' = [drv EXCEPT !.pc = "d_step", !.input = drv.stream]

\* d.decompress(&mut input, &mut output) on the input view as left.
DrvDecompress(n) ==
    /\ drv.pc = "d_step"
    /\ UNCHANGED solo
    /\ LET output == View(Len(drv.plain), n)
       IN
        /\ DecompressCall(drv.input, output)
        /\ drv' = [drv EXCEPT
                !.pc = IF last'.ret.ok THEN "d_drain" ELSE "failed",
                !.status = last'.ret.val,
                !.input = last'.inputAfter,
                !.plain = Before(RegionAfter(@, output, last'.written),
                                 last'.outputAfter)]

\* while let Some(buf) = d.take_output(limit) { extend_from_slice } and then
\* the match on the status of the step call.
DrvDecompressTake(l) ==
    /\ drv.pc = "d_drain"
    /\ UNCHANGED solo
    /\ DecompressTakeCall(l)
    /\ drv' = IF last'.took.some
              THEN [drv EXCEPT !.plain = @ \o last'.took.v]
              ELSE IF drv.status = "NeedOutput"
              THEN [drv EXCEPT !.pc = "d_step"]
              ELSE IF drv.status = "Finished"
              THEN [drv EXCEPT !.pc = "done", !.count = Len(drv.plain)]
              ELSE [drv EXCEPT !.pc = "failed"]

NextDriver ==
    \/ \E n \in 0..MaxRegion : DrvCompressBuf(n)
    \/ DrvCompressNew
    \/ \E n \in ViewSize : DrvCompress(n)
    \/ \E l \in DrainLimit : DrvCompressTake(l)
    \/ DrvCompressDrop
    \/ \E n \in 0..MaxRegion : DrvDecompressBuf(n)
    \/ DrvDecompressNew
    \/ \E n \in ViewSize : DrvDecompress(n)
    \/ \E l \in DrainLimit : DrvDecompressTake(l)

\* The caller keeps going until its round trip is over.
Driver == InitDriver /\ [][NextDriver]_vars /\ WF_vars(NextDriver)

(* ------------------------------- claims ------------------------------- *)

IsStep == last.kind \in {"compress", "decompress"}

\* What take_output can still retrieve from each session.
EncBuffered == enc.out
DecBuffered == IF dec.err THEN <<>> ELSE dec.ring

\* C1: a successful compress call with Flush, Finish or EmitMetadata returns
\* Unfinished exactly when the input view is not empty, or the engine reports
\* more output, or (Finish) the engine reports it is not finished; else it
\* returns Finished, and then the view is empty and no output is buffered.
C1_StatusDerivation ==
    (last.kind = "compress" /\ last.op # "Process" /\ last.ret.ok) =>
        /\ last.ret.val \in {"Finished", "Unfinished"}
        /\ last.ret.val = "Unfinished" <=>
              \/ last.inputAfter # <<>>
              \/ BrotliEncoderHasMoreOutput(enc) = 1
              \/ (last.op = "Finish" /\ BrotliEncoderIsFinished(enc) = 0)
        /\ last.ret.val = "Finished" =>
              last.inputAfter = <<>> /\ EncBuffered = <<>>

\* A Flush that took all its input and is Unfinished only for buffered output.
C1_Witness ==
    /\ last.kind = "compress" /\ last.op = "Flush"
    /\ last.ret = Ok("Unfinished")
    /\ last.input # <<>> /\ last.inputAfter = <<>>
    /\ EncBuffered # <<>>

\* C2: a compress call with Process that the engine does not fail returns
\* Finished, whatever input is left and whatever output is buffered.
C2_ProcessFinished ==
    (last.kind = "compress" /\ last.op = "Process" /\ last.r # 0) =>
        last.ret = Ok("Finished")

\* A Process call that left input unconsumed and output buffered.
C2_Witness ==
    /\ last.kind = "compress" /\ last.op = "Process" /\ last.r # 0
    /\ last.inputAfter # <<>>
    /\ EncBuffered # <<>>

\* C3: after a step call the input view is the suffix the engine did not
\* consume and the output view the suffix it did not fill; the lengths taken
\* off are the engine's consumed and written counts and stay within bounds.
C3_BufferAccounting ==
    IsStep =>
        /\ Len(last.input) - Len(last.inputAfter) = last.next_in
        /\ last.inputAfter = Drop(last.input, last.next_in)
        /\ last.output.len - last.outputAfter.len = Len(last.written)
        /\ last.outputAfter =
              View(last.output.off + Len(last.written),
                   last.output.len - Len(last.written))
        /\ Len(last.inputAfter) \in 0..Len(last.input)
        /\ last.outputAfter.len \in 0..last.output.len

\* A compress call that consumed part of its input and wrote some output.
C3_Witness ==
    /\ last.kind = "compress"
    /\ last.next_in > 0 /\ last.next_in < Len(last.input)
    /\ last.written # <<>>

DecoderResult == {"ERROR", "SUCCESS", "NEEDS_MORE_INPUT", "NEEDS_MORE_OUTPUT"}

\* Non-empty inputs of zero bytes only.
Zeros == {z \in SeqUpTo({0}, MaxIn) : z # <<>>}

\* C7: decompress maps ERROR to Err(Error), SUCCESS to Ok(Finished),
\* NEEDS_MORE_INPUT to Ok(NeedInput), NEEDS_MORE_OUTPUT to Ok(NeedOutput);
\* zero bytes given to a new session yield Err; only a code outside the
\* enumeration panics.
C7_ResultMapping ==
    /\ last.kind = "decompress" =>
          /\ last.rc \in DecoderResult
          /\ last.rc = "ERROR" <=> last.ret = Err
          /\ last.rc = "SUCCESS" <=> last.ret = Ok("Finished")
          /\ last.rc = "NEEDS_MORE_INPUT" <=> last.ret = Ok("NeedInput")
          /\ last.rc = "NEEDS_MORE_OUTPUT" <=> last.ret = Ok("NeedOutput")
    /\ \A z \in Zeros, n \in 0..MaxOut :
          Decompress_decompress(DecInit, z, View(0, n)).ret = Err
    /\ \A rc \in DecoderResult \cup {"UNKNOWN"} :
          Decompress_rc(rc).val = "panic" <=> rc \notin DecoderResult

\* A decompress call on zero bytes that returned the error.
C7_Witness ==
    /\ last.kind = "decompress"
    /\ last.input \in Zeros
    /\ last.rc = "ERROR" /\ last.ret = Err

\* C8 as stated: once take_output has returned None, nothing is buffered.
C8_DrainedOnNone ==
    /\ (last.kind = "ctake" /\ last.took = NoneSlice) => EncBuffered = <<>>
    /\ (last.kind = "dtake" /\ last.took = NoneSlice) => DecBuffered = <<>>

\* Nothing is buffered, and a take_output that follows returns None.
C8_StaysDrained ==
    /\ (EncBuffered = <<>> /\ last'.kind = "ctake") =>
          last'.took = NoneSlice /\ EncBuffered' = <<>>
    /\ (DecBuffered = <<>> /\ last'.kind = "dtake") =>
          last'.took = NoneSlice /\ DecBuffered' = <<>>

\* C8 (amended): once take_output with a limit other than Some(0) has
\* returned None, nothing retrievable is buffered, and every take_output
\* made before the next step call returns None.
C8_DrainIdempotent ==
    /\ [](/\ (/\ last.kind = "ctake" /\ last.took = NoneSlice
              /\ last.limit # Some(0)) => EncBuffered = <<>>
          /\ (/\ last.kind = "dtake" /\ last.took = NoneSlice
              /\ last.limit # Some(0)) => DecBuffered = <<>>)
    /\ [][C8_StaysDrained]_vars

\* A drain of the compressor that ended: the call before took bytes, this
\* one, with no limit of zero, returned None.
C8_Witness ==
    /\ last.kind = "ctake" /\ last.took = NoneSlice
    /\ last.limit = Some(1)
    /\ enc.ss = "FINISHED"

\* C9: take_output(Some(0)) returns None and leaves the engine as it was, so
\* all buffered bytes are still retrievable.
C9_ZeroLimit ==
    [][/\ (last'.kind = "ctake" /\ last'.limit = Some(0)) =>
              last'.took = NoneSlice /\ enc' = enc
       /\ (last'.kind = "dtake" /\ last'.limit = Some(0)) =>
              last'.took = NoneSlice /\ dec' = dec]_vars

\* take_output(Some(0)) was called while output was buffered.
C9_Witness ==
    /\ last.kind = "ctake" /\ last.limit = Some(0)
    /\ EncBuffered # <<>>

\* C10: on success compress_buf and decompress_buf narrow the output view to
\* the prefix of the region that holds the written bytes, and return its
\* length.
C10_Narrowing ==
    (last.kind \in {"compress_buf", "decompress_buf"} /\ last.size.ok) =>
        /\ last.outputAfter = View(last.output.off, Len(last.written))
        /\ last.size.val = last.outputAfter.len

\* A one-shot compression that filled part of a larger region.
C10_Witness ==
    /\ last.kind = "compress_buf" /\ last.size.ok
    /\ last.size.val > 1
    /\ last.size.val < last.output.len

\* C4: a step call whose output view is too small for the data returns
\* Unfinished (compression, Flush or Finish) or NeedOutput (decompression);
\* repeating the operation on the advanced input view with a new output view
\* of any size, empty ones included, and draining with take_output after
\* each call, the session then returns Finished.
C4_PartialOutput ==
    /\ [](/\ (/\ last.kind = "compress" /\ last.ret.ok
              /\ EncBuffered # <<>>) => last.ret = Ok("Unfinished")
          /\ (/\ last.kind = "decompress" /\ last.ret.ok
              /\ DecBuffered # <<>>) => last.ret = Ok("NeedOutput"))
    /\ (drv.status = "Unfinished") ~>
          (last.kind = "compress" /\ last.ret = Ok("Finished"))
    /\ (drv.status = "NeedOutput") ~>
          (last.kind = "decompress" /\ last.ret = Ok("Finished"))

\* A Finish given an empty output view came back Unfinished.
C4_Witness ==
    /\ last.kind = "compress" /\ last.op = "Finish"
    /\ last.output.len = 0
    /\ last.ret = Ok("Unfinished")
    /\ Len(drv.data) = MaxData

\* A round trip fails only in a one-shot call whose region is too small.
FailsForRoomOnly ==
    drv.pc = "failed" =>
        /\ last.kind \in {"compress_buf", "decompress_buf"}
        /\ last.output.len < MaxRegion

\* C5: the bytes produced by compressing b, by compress_buf or by a session
\* driven with Finish until Finished, decompress to exactly b, by
\* decompress_buf or by a session, and the length reported is that of b.
C5_RoundTrip ==
    ~drv.split =>
        /\ drv.pc = "done" =>
              drv.plain = drv.data /\ drv.count = Len(drv.data)
        /\ FailsForRoomOnly

\* A round trip of the longest data through the two sessions is over.
C5_Witness ==
    /\ ~drv.split /\ drv.pc = "done"
    /\ Len(drv.data) = MaxData
    /\ last.kind = "dtake"
    /\ Len(drv.stream) > MaxData

\* C6: x compressed with Flush until Finished, then y with Finish until
\* Finished, into one accumulating output, decompresses to x \o y.
C6_SplitInput ==
    drv.split =>
        /\ drv.pc = "done" =>
              drv.plain = drv.data /\ drv.count = Len(drv.data)
        /\ FailsForRoomOnly

\* A round trip of two non-empty chunks is over.
C6_Witness ==
    /\ drv.split /\ drv.pc = "done"
    /\ drv.plain # <<>>
    /\ \E k \in 1..(Len(drv.data) - 1) :
          drv.stream = <<HdrBase + k>> \o Take(drv.data, k)
                       \o <<HdrBase + (Len(drv.data) - k)>>
                       \o Drop(drv.data, k) \o <<LastMark>>

\* C11: a new Compress session given empty input with Finish, repeated until
\* Finished with all output collected, returns Finished only once the engine
\* reports it is finished, and the stream collected is complete: it
\* decompresses to the empty sequence, of length 0.
C11_EmptyInput ==
    (drv.data = <<>> /\ ~drv.split) =>
        /\ (last.kind = "compress" /\ last.ret = Ok("Finished")) =>
              /\ BrotliEncoderIsFinished(enc) = 1
              /\ enc.ss = "FINISHED"
        /\ drv.pc \in {"c_done", "d_start", "d_step", "d_drain", "done"} =>
              /\ drv.stream # <<>>
              /\ BrotliDecoderDecompress(drv.stream, MaxRegion).r = 1
        /\ drv.pc = "done" => drv.plain = <<>> /\ drv.count = 0
        /\ FailsForRoomOnly

\* The empty sequence went through a Compress session, which produced a
\* one-byte stream, and came back empty from a Decompress session.
C11_Witness ==
    /\ drv.data = <<>> /\ ~drv.split /\ drv.pc = "done"
    /\ drv.status = "Finished"
    /\ last.kind = "dtake"
    /\ drv.stream = <<LastMark>>
    /\ drv.plain = <<>> /\ drv.count = 0

\* The calls of each session, by the kind recorded for them, and the kind of
\* engine instance each session owns.
CallsOf(s) ==
    IF s = "c" THEN {"cnew", "compress", "ctake", "set_params", "cdrop"}
    ELSE {"dnew", "decompress", "dtake", "ddrop"}
InstanceOf(s) == IF s = "c" THEN "encoder" ELSE "decoder"
Session == {"c", "d"}

\* Every session that exists holds an instance of its kind, no other
\* instance exists, no two sessions hold the same one, and the engine calls
\* of the last call went to the caller's own instance.
OwnsOneInstance ==
    /\ \A s \in Session :
          IF s \in live
          THEN ptr[s] \in Addr /\ heap[ptr[s]] = InstanceOf(s)
          ELSE ptr[s] = NullPtr
    /\ {a \in Addr : heap[a] # "free"} = {ptr[s] : s \in live}
    /\ \A s, t \in live : s # t => ptr[s] # ptr[t]
    /\ \A s \in Session :
          (last.kind \in CallsOf(s) /\ last.engine # <<>>) =>
              s \in live /\ last.engine = <<ptr[s]>>
    /\ last.kind \notin {"cdrop", "ddrop"} => last.destroyed = <<>>

\* A destruction makes one teardown call, on the instance the session held,
\* which existed until then; no other call makes one.
TornDownOnce ==
    \A s \in Session :
        (last'.kind \in CallsOf(s) /\ s \in live /\ s \notin live') =>
            /\ last'.destroyed = <<ptr[s]>>
            /\ heap[ptr[s]] = InstanceOf(s)
            /\ heap' = [heap EXCEPT ![ptr[s]] = "free"]

\* C12: a session owns exactly one engine instance from construction to
\* destruction; the teardown call is made once, at destruction; no call
\* reaches an instance after its teardown; no two sessions hold the same
\* instance.
C12_Ownership == []OwnsOneInstance /\ [][TornDownOnce]_vars

\* The Compress session was destroyed while the Decompress session created
\* after it lives on: its instance is released, the other one is not.
C12_Witness ==
    /\ last.kind = "cdrop" /\ last.destroyed = <<1>>
    /\ live = {"d"} /\ ptr.d = 2
    /\ heap[1] = "free" /\ heap[2] = "decoder"
    /\ dec.ring # <<>>

\* What the last call handed back to its caller.
LastResult ==
    [ret |-> last.ret, input |-> last.inputAfter,
     output |-> last.outputAfter, took |-> last.took]

C14_OneShotError ==
    last.kind \in {"compress_buf", "decompress_buf"} =>
        /\ last.r = 0 => last.size = ErrSize
        /\ last.r # 0 => last.size.ok
        /\ ~last.size.ok => last.size = ErrSize

\* A one-shot decompression of a well-formed stream failed for want of room,
\* after the engine had filled the region.
C14_Witness ==
    /\ last.kind = "decompress_buf" /\ last.r = 0
    /\ last.size = ErrSize
    /\ last.input = <<HdrBase + 2, 0, 1, LastMark>>
    /\ Len(last.written) = 1 /\ last.output.len = 1

\* C15 as stated: the readable accessors return 2^windowBits and 2^blockBits
\* for every value the fields can hold.
C15_ExactPowers ==
    /\ last.kind = "get_lgwin_readable" =>
          last.value = PowerOfTwo(last.params.lgwin)
    /\ last.kind = "get_lgblock_readable" =>
          last.value = PowerOfTwo(last.params.lgblock)

\* The field a readable accessor reads.
ReadableField ==
    IF last.kind = "get_lgwin_readable" THEN last.params.lgwin
    ELSE last.params.lgblock

\* C15 (amended): the setters store any value; the readable accessors return
\* 2^windowBits and 2^blockBits for values below the width of usize, and for
\* values from the width on they panic (overflow checked) or return
\* 2^(value mod width); no accessor changes the parameter set.
C15_Readable ==
    /\ last.kind = "lgwin" => last.paramsAfter.lgwin = last.arg
    /\ last.kind = "lgblock" => last.paramsAfter.lgblock = last.arg
    /\ last.kind \in {"get_lgwin_readable", "get_lgblock_readable"} =>
          /\ last.paramsAfter = last.params
          /\ ReadableField < last.build.width =>
                last.value = PowerOfTwo(ReadableField)
          /\ ReadableField >= last.build.width =>
                last.value = IF last.build.overflow_checks THEN Panic
                             ELSE PowerOfTwo(ReadableField % last.build.width)

\* get_lgwin_readable returned 2^24 for the largest documented window, with
\* another value in the block field.
C15_Witness ==
    /\ last.kind = "get_lgwin_readable"
    /\ last.params.lgwin = 24 /\ last.params.lgblock = 16
    /\ last.value = PowerOfTwo(24)

\* The four set-parameter calls for a parameter set, in order.
FourCalls(params) ==
    <<<<"BROTLI_PARAM_MODE", params.mode>>,
      <<"BROTLI_PARAM_QUALITY", params.quality>>,
      <<"BROTLI_PARAM_LGWIN", params.lgwin>>,
      <<"BROTLI_PARAM_LGBLOCK", params.lgblock>>>>

\* C16: set_params makes four set-parameter calls, for mode, quality,
\* windowBits and blockBits in this order, each with the field of the
\* parameter set given; it does so in every state of the session, returns
\* nothing and leaves the parameter set as it was.
C16_SetParams ==
    /\ last.kind = "set_params" =>
          /\ last.setparam = FourCalls(last.params)
          /\ last.paramsAfter = last.params
          /\ last.ret = NoCall.ret /\ last.took = NoCall.took
    /\ "c" \in live =>
          \A params \in SomeParams :
              Compress_set_params(enc, params).calls = FourCalls(params)

\* set_params was called with a parameter set other than the default one on
\* a session whose stream is finished and not yet drained.
C16_Witness ==
    /\ last.kind = "set_params"
    /\ last.params # CompressParams_new
    /\ Len(last.setparam) = 4
    /\ enc.ss = "FINISHED" /\ enc.out # <<>>

\* C17 as stated: the description of the error is "codec error".
C17_CodecError ==
    (IsStep /\ ~last.ret.ok) => Error_description(last.ret.val) = "codec error"

\* C17 (amended): the error of a failing step call is the one Error value
\* whatever the call and the failure, and its description, what it displays
\* and the message of the io::Error made from it are "brotli error".
C17_ErrorValue ==
    (IsStep /\ ~last.ret.ok) =>
        /\ last.ret = Err
        /\ last.ret.val = Compress_compress(EncInit, "EmitMetadata",
                              [i \in 1..(MetaCap + 1) |-> 0], View(0, 0)).ret.val
        /\ Error_description(last.ret.val) = "brotli error"
        /\ Error_fmt(last.ret.val) = "brotli error"
        /\ io_Error_from(last.ret.val) =
              [kind |-> "Other", error |-> "brotli error"]

\* A decompress call failed on a byte that is no block header.
C17_Witness ==
    /\ last.kind = "decompress" /\ last.rc = "ERROR"
    /\ ~last.ret.ok
    /\ last.input = <<0>>

\* a is a prefix of b.
IsPrefix(a, b) == Len(a) <= Len(b) /\ a = Take(b, Len(a))

\* Room for the whole stream of the caller's data, and for the data.
Roomy == 2 * Len(drv.data) + 2

\* The engine's output stream for the caller's data: what the encoder emits
\* when every call has room for all its output.
WholeStream ==
    IF ~drv.split
    THEN BrotliEncoderCompressStream(EncInit, "Finish", drv.data,
                                     Roomy).written
    ELSE LET x == BrotliEncoderCompressStream(EncInit, "Flush",
                      Take(drv.data, drv.cut), Roomy)
             y == BrotliEncoderCompressStream(x.e, "Finish",
                      Drop(drv.data, drv.cut), Roomy)
         IN  x.written \o y.written

\* The decoder's output stream for the stream collected.
WholePlain ==
    BrotliDecoderDecompressStream(DecInit, drv.stream, Roomy).written

WithinLimit(limit, took, buf) ==
    /\ took # Some(<<>>)
    /\ (limit.some /\ limit.v > 0) =>
          \/ took = NoneSlice
          \/ took.some /\ Len(took.v) \in 1..limit.v
    /\ ~limit.some =>
          \/ took = NoneSlice /\ buf = <<>>
          \/ took.some /\ took.v = buf

\* C19: take_output(Some(n)) with n > 0 returns None or a slice of 1 to n
\* bytes; take_output(None) is held to no length, it returns all that is
\* buffered; neither returns Some of an empty slice.
C19_SliceLength ==
    [][/\ last'.kind = "ctake" =>
              WithinLimit(last'.limit, last'.took, EncBuffered)
       /\ last'.kind = "dtake" =>
              WithinLimit(last'.limit, last'.took, DecBuffered)]_vars

\* take_output(Some(1)) returned one byte and more is still buffered.
C19_Witness ==
    /\ last.kind = "dtake" /\ last.limit = Some(1)
    /\ last.took.some /\ Len(last.took.v) = 1
    /\ DecBuffered # <<>>

\* C20: a step call that returns Err leaves the views advanced by what the
\* engine consumed and wrote before it failed, not as they were at the call.
C20_ErrorAdvances ==
    (IsStep /\ ~last.ret.ok) =>
        /\ last.inputAfter = Drop(last.input, last.next_in)
        /\ last.outputAfter =
              View(last.output.off + Len(last.written),
                   last.output.len - Len(last.written))

\* A decompress call returned Err after the engine had consumed input and
\* written output: both views differ from what they were at the call.
C20_Witness ==
    /\ last.kind = "decompress" /\ ~last.ret.ok
    /\ last.next_in > 0 /\ last.written # <<>>
    /\ last.inputAfter # last.input
    /\ last.outputAfter # last.output

\* What a session given params by set_params writes for the input of the
\* last call, finished in one step into a region of the same length.
SessionWritten(params) ==
    BrotliEncoderCompressStream(Compress_set_params(EncInit, params).state,
                                "Finish", last.input,
                                last.output.len).written

\* C21: compress_buf does not depend on lgblock: called with a parameter set
\* that differs from the one given only in lgblock, on the same input and
\* output region, it returns the same result, narrows the view alike and
\* writes the same bytes.
C21_BlockBitsUnused ==
    last.kind = "compress_buf" =>
        \A lgblock \in LgValue :
            LET c == compress_buf([last.params EXCEPT !.lgblock = lgblock],
                                  last.input, last.output)
            IN  /\ c.ret = last.size
                /\ c.output = last.outputAfter
                /\ c.eng.written = last.written

\* compress_buf succeeded on a parameter set whose block bits are set and
\* matter to the engine: a session given the same set by set_params, which
\* forwards lgblock, writes other bytes, while compress_buf wrote what it
\* writes with the block bits unset.
C21_Witness ==
    /\ last.kind = "compress_buf" /\ last.size.ok
    /\ last.params.lgblock # 0
    /\ SessionWritten(last.params) # last.written
    /\ SessionWritten([last.params EXCEPT !.lgblock = 0]) = last.written

====
